---- MODULE Spec2Model ----
(***************************************************************************)
(* Data.Native.Array: curried helper functions over JavaScript arrays      *)
(* (src/index.js).  An array is a TLA+ sequence; the JavaScript index i    *)
(* is position i + 1 of the sequence.  A caller holds one array `a` and    *)
(* calls the library's functions on it in any order, one call at a time.   *)
(***************************************************************************)
EXTENDS Integers, Sequences, FiniteSets, TLC

VARIABLES
    a,        \* the caller's array, passed as the array argument of each call
    orig,     \* the contents of that array before the first call
    op,       \* the function last called
    args,     \* its other arguments
    result,   \* the value it returned
    pc,       \* "idle", "findMap" (inside findMap's loop) or "returned"
    lp,       \* findMap's loop index
    calls     \* the callbacks the call has invoked, in order

vars == <<a, orig, op, args, result, pc, lp, calls>>

----------------------------------------------------------------------------
(* Bounds of the inputs the caller draws. *)

MaxLen == 3
MaxLen2 == 2
MaxElem == 2
MaxIdx == 4
MaxRange == 3

Elem == 0..MaxElem
SeqsUpTo(n) == UNION {[1..k -> Elem] : k \in 0..n}
Arrays == SeqsUpTo(MaxLen)
Arrays2 == SeqsUpTo(MaxLen2)
Indices == (0 - MaxIdx)..MaxIdx
RangeInts == (0 - MaxRange)..MaxRange

----------------------------------------------------------------------------
(* Data.Native.Maybe and the JavaScript primitives the module uses. *)

Nothing == [tag |-> "Nothing"]
Just(v) == [tag |-> "Just", value |-> v]
isJust(m) == m.tag = "Just"

Min(x, y) == IF x < y THEN x ELSE y
Max(x, y) == IF x > y THEN x ELSE y

\* a[i] for an index inside the array
Idx(arr, i) == arr[i + 1]

\* [...arr]: a fresh array with the same elements
Spread(arr) == [i \in 1..Len(arr) |-> arr[i]]

\* Array.prototype.slice(start, end): relative indices clamped into 0..len
ArraySlice(arr, start, end) ==
    LET len == Len(arr)
        k == IF start < 0 THEN Max(len + start, 0) ELSE Min(start, len)
        final == IF end < 0 THEN Max(len + end, 0) ELSE Min(end, len)
        count == Max(final - k, 0)
    IN  [i \in 1..count |-> arr[k + i]]

----------------------------------------------------------------------------
(* The pure functions of the module. *)

length(arr) == Len(arr)

\* item put first
appendFront(arr, item) == <<item>> \o Spread(arr)

append(arr, item) == Spread(arr) \o <<item>>

prepend(item, arr) == <<item>> \o Spread(arr)

\* end taken as inclusive
sliceInclusive(arr, start, end) == ArraySlice(arr, start, end + 1)

slice(arr, start, end) == ArraySlice(arr, start, end)

\* a negative index counted from the end, as slice does
atFromEnd(arr, index) ==
    IF index >= Len(arr) \/ index < 0 - Len(arr)
    THEN Nothing
    ELSE IF index < 0
         THEN Just(Idx(arr, Len(arr) + index))
         ELSE Just(Idx(arr, index))

at(arr, index) ==
    IF index < 0 \/ index >= Len(arr)
    THEN Nothing
    ELSE Just(Idx(arr, index))

RECURSIVE rangeUp(_, _, _)
rangeUp(i, upper, res) ==
    IF i < upper THEN rangeUp(i + 1, upper, Append(res, i)) ELSE res

RECURSIVE rangeDown(_, _, _)
rangeDown(i, upper, res) ==
    IF i > upper THEN rangeDown(i - 1, upper, Append(res, i)) ELSE res

\* no descending branch
rangeAscending(lower, upper) == rangeUp(lower, upper, <<>>)

range(lower, upper) ==
    IF lower < upper
    THEN rangeUp(lower, upper, <<>>)
    ELSE rangeDown(lower, upper, <<>>)

concat(a1, a2) == a1 \o a2

\* the callbacks reduce is given: fNil = () => ..., fCons = h => t => ...
fNil == [kind |-> "Nil"]
fCons(h, t) == [kind |-> "Cons", head |-> h, tail |-> t]

\* tail kept whole: a.slice(0) in place of a.slice(1)
reduceWholeTail(arr) ==
    IF Len(arr) = 0
    THEN [ret |-> fNil, calls |-> <<"fNil">>]
    ELSE [ret |-> fCons(Idx(arr, 0), ArraySlice(arr, 0, Len(arr))),
          calls |-> <<"fCons">>]

\* ret: the value returned; calls: the callbacks invoked, in order
reduce(arr) ==
    IF Len(arr) = 0
    THEN [ret |-> fNil, calls |-> <<"fNil">>]
    ELSE [ret |-> fCons(Idx(arr, 0), ArraySlice(arr, 1, Len(arr))),
          calls |-> <<"fCons">>]

\* the combining functions zipWith is given
Combinators == {"mul", "sub"}
Apply2(f, v1, v2) == IF f = "mul" THEN v1 * v2 ELSE v1 - v2

RECURSIVE zipWithLoop(_, _, _, _, _, _)
zipWithLoop(f, a1, a2, i, upper, res) ==
    IF i < upper
    THEN zipWithLoop(f, a1, a2, i + 1, upper,
                     Append(res, Apply2(f, Idx(a1, i), Idx(a2, i))))
    ELSE res

\* loop bound one short: lp < upper - 1
zipWithShort(f, a1, a2) ==
    LET upper == Min(Len(a1), Len(a2))
    IN  zipWithLoop(f, a1, a2, 0, upper - 1, <<>>)

zipWith(f, a1, a2) ==
    LET upper == Min(Len(a1), Len(a2))
    IN  zipWithLoop(f, a1, a2, 0, upper, <<>>)

\* the element functions map is given
Mappers == {"double", "inc"}
Apply1(f, x) == IF f = "double" THEN x * 2 ELSE x + 1

map(f, arr) == [i \in 1..Len(arr) |-> Apply1(f, arr[i])]

\* String(n) of an integer n
RECURSIVE NumberToString(_)
NumberToString(n) ==
    IF n < 0 THEN "-" \o NumberToString(0 - n)
    ELSE IF n < 10 THEN ToString(n)
    ELSE NumberToString(n \div 10) \o ToString(n % 10)

Separators == {", ", ""}

RECURSIVE joinFrom(_, _, _)
joinFrom(arr, sep, i) ==
    IF i > Len(arr) THEN ""
    ELSE IF i = Len(arr) THEN NumberToString(arr[i])
    ELSE NumberToString(arr[i]) \o sep \o joinFrom(arr, sep, i + 1)

join(arr, sep) == joinFrom(arr, sep, 1)

\* the predicates filter is given: n => n > t
Thresholds == Elem
predicate(t, n) == n > t

RECURSIVE filterFrom(_, _, _)
filterFrom(t, arr, i) ==
    IF i > Len(arr) THEN <<>>
    ELSE IF predicate(t, arr[i])
         THEN <<arr[i]>> \o filterFrom(t, arr, i + 1)
         ELSE filterFrom(t, arr, i + 1)

filter(t, arr) == filterFrom(t, arr, 1)

\* the comparators sort is given; each is consistent
Comparators == {"asc", "desc", "byKey", "zero"}
key(x) == x \div 2
compare(c, x, y) ==
    IF c = "asc" THEN (IF x < y THEN 0 - 1 ELSE IF x > y THEN 1 ELSE 0)
    ELSE IF c = "desc" THEN (IF x > y THEN 0 - 1 ELSE IF x < y THEN 1 ELSE 0)
    ELSE IF c = "byKey" THEN key(x) - key(y)
    ELSE 0

\* moves the element past equal elements as well: order >= 0
RECURSIVE insertPosPastEqual(_, _, _, _)
insertPosPastEqual(sorted, element, j, c) ==
    IF j >= 1 /\ compare(c, sorted[j], element) >= 0
    THEN insertPosPastEqual(sorted, element, j - 1, c)
    ELSE j

\* Array.prototype.sort: the number of elements of the sorted prefix that stay
\* before `element`, scanning from the right while comparefn(tmp, element) > 0
RECURSIVE insertPos(_, _, _, _)
insertPos(sorted, element, j, c) ==
    IF j >= 1 /\ compare(c, sorted[j], element) > 0
    THEN insertPos(sorted, element, j - 1, c)
    ELSE j

RECURSIVE ArraySortFrom(_, _, _)
ArraySortFrom(arr, i, c) ==
    IF i > Len(arr) THEN arr
    ELSE LET p == insertPos(SubSeq(arr, 1, i - 1), arr[i], i - 1, c)
         IN  ArraySortFrom(SubSeq(arr, 1, p) \o <<arr[i]>> \o SubSeq(arr, p + 1, i - 1)
                             \o SubSeq(arr, i + 1, Len(arr)),
                           i + 1, c)

\* Array.prototype.sort(comparefn): sorts the array it is called on, stably
ArraySort(arr, c) == ArraySortFrom(arr, 2, c)

\* a.sort(...) without the copy
sortInPlace(c, arr) ==
    [arg |-> ArraySort(arr, c), ret |-> ArraySort(arr, c)]

\* arg: the argument array after the call; ret: the array returned
sort(c, arr) ==
    LET copy == Spread(arr)
    IN  [arg |-> arr, ret |-> ArraySort(copy, c)]

\* the mappings findMap is given: x => s has x ? Just(x + 10) : Nothing
Mappings == SUBSET Elem
f(s, x) == IF x \in s THEN Just(x + 10) ELSE Nothing

----------------------------------------------------------------------------

Init ==
    /\ a \in Arrays
    /\ orig = a
    /\ op = "none"
    /\ args = <<>>
    /\ result = <<>>
    /\ pc = "idle"
    /\ lp = 0
    /\ calls = <<>>

Length ==
    /\ pc = "idle"
    /\ op' = "length"
    /\ args' = <<>>
    /\ result' = length(a)
    /\ calls' = <<>>
    /\ pc' = "returned"
    /\ UNCHANGED <<a, orig, lp>>

At ==
    /\ pc = "idle"
    /\ \E index \in Indices :
        /\ op' = "at"
        /\ args' = [index |-> index]
        /\ result' = at(a, index)
    /\ calls' = <<>>
    /\ pc' = "returned"
    /\ UNCHANGED <<a, orig, lp>>


Append_ ==
    /\ pc = "idle"
    /\ \E item \in Elem :
        /\ op' = "append"
        /\ args' = [item |-> item]
        /\ result' = append(a, item)
    /\ calls' = <<>>
    /\ pc' = "returned"
    /\ UNCHANGED <<a, orig, lp>>

Prepend ==
    /\ pc = "idle"
    /\ \E item \in Elem :
        /\ op' = "prepend"
        /\ args' = [item |-> item]
        /\ result' = prepend(item, a)
    /\ calls' = <<>>
    /\ pc' = "returned"
    /\ UNCHANGED <<a, orig, lp>>

Slice ==
    /\ pc = "idle"
    /\ \E start \in Indices, end \in Indices :
        /\ op' = "slice"
        /\ args' = [start |-> start, end |-> end]
        /\ result' = slice(a, start, end)
    /\ calls' = <<>>
    /\ pc' = "returned"
    /\ UNCHANGED <<a, orig, lp>>

Range ==
    /\ pc = "idle"
    /\ \E lower \in RangeInts, upper \in RangeInts :
        /\ op' = "range"
        /\ args' = [lower |-> lower, upper |-> upper]
        /\ result' = range(lower, upper)
    /\ calls' = <<>>
    /\ pc' = "returned"
    /\ UNCHANGED <<a, orig, lp>>

Concat ==
    /\ pc = "idle"
    /\ \E a2 \in Arrays2 :
        /\ op' = "concat"
        /\ args' = [a2 |-> a2]
        /\ result' = concat(a, a2)
    /\ calls' = <<>>
    /\ pc' = "returned"
    /\ UNCHANGED <<a, orig, lp>>

Reduce ==
    /\ pc = "idle"
    /\ op' = "reduce"
    /\ args' = <<>>
    /\ result' = reduce(a).ret
    /\ calls' = reduce(a).calls
    /\ pc' = "returned"
    /\ UNCHANGED <<a, orig, lp>>

ZipWith ==
    /\ pc = "idle"
    /\ \E g \in Combinators, a2 \in Arrays2 :
        /\ op' = "zipWith"
        /\ args' = [f |-> g, a2 |-> a2]
        /\ result' = zipWith(g, a, a2)
    /\ calls' = <<>>
    /\ pc' = "returned"
    /\ UNCHANGED <<a, orig, lp>>

Map ==
    /\ pc = "idle"
    /\ \E g \in Mappers :
        /\ op' = "map"
        /\ args' = [f |-> g]
        /\ result' = map(g, a)
    /\ calls' = <<>>
    /\ pc' = "returned"
    /\ UNCHANGED <<a, orig, lp>>

Join ==
    /\ pc = "idle"
    /\ \E sep \in Separators :
        /\ op' = "join"
        /\ args' = [sep |-> sep]
        /\ result' = join(a, sep)
    /\ calls' = <<>>
    /\ pc' = "returned"
    /\ UNCHANGED <<a, orig, lp>>

Filter ==
    /\ pc = "idle"
    /\ \E t \in Thresholds :
        /\ op' = "filter"
        /\ args' = [predicate |-> t]
        /\ result' = filter(t, a)
    /\ calls' = <<>>
    /\ pc' = "returned"
    /\ UNCHANGED <<a, orig, lp>>

Sort ==
    /\ pc = "idle"
    /\ \E c \in Comparators :
        /\ op' = "sort"
        /\ args' = [compare |-> c]
        /\ result' = sort(c, a).ret
        /\ a' = sort(c, a).arg
    /\ calls' = <<>>
    /\ pc' = "returned"
    /\ UNCHANGED <<orig, lp>>

\* findMap is entered: lp = 0, f not yet applied
FindMapCall ==
    /\ pc = "idle"
    /\ \E s \in Mappings :
        args' = [f |-> s]
    /\ op' = "findMap"
    /\ result' = <<>>
    /\ pc' = "findMap"
    /\ lp' = 0
    /\ calls' = <<>>
    /\ UNCHANGED <<a, orig>>

\* returns Just of the element found, not of the mapped result
FindMapStepElement ==
    /\ pc = "findMap"
    /\ lp < Len(a)
    /\ LET fResult == f(args.f, Idx(a, lp))
       IN  /\ calls' = Append(calls, lp)
           /\ IF isJust(fResult)
              THEN /\ result' = Just(Idx(a, lp))
                   /\ pc' = "returned"
                   /\ lp' = 0
              ELSE /\ lp' = lp + 1
                   /\ UNCHANGED <<result, pc>>
    /\ UNCHANGED <<a, orig, op, args>>

\* applies f to the following element before it looks at the result
FindMapStepEager ==
    /\ pc = "findMap"
    /\ lp < Len(a)
    /\ LET fResult == f(args.f, Idx(a, lp))
       IN  /\ calls' = IF lp + 1 < Len(a)
                       THEN calls \o <<lp, lp + 1>>
                       ELSE Append(calls, lp)
           /\ IF isJust(fResult)
              THEN /\ result' = fResult
                   /\ pc' = "returned"
                   /\ lp' = 0
              ELSE /\ lp' = lp + 1
                   /\ UNCHANGED <<result, pc>>
    /\ UNCHANGED <<a, orig, op, args>>

\* one iteration of the loop: f is applied to a[lp] (recorded in calls)
FindMapStep ==
    /\ pc = "findMap"
    /\ lp < Len(a)
    /\ LET fResult == f(args.f, Idx(a, lp))
       IN  /\ calls' = Append(calls, lp)
           /\ IF isJust(fResult)
              THEN /\ result' = fResult
                   /\ pc' = "returned"
                   /\ lp' = 0
              ELSE /\ lp' = lp + 1
                   /\ UNCHANGED <<result, pc>>
    /\ UNCHANGED <<a, orig, op, args>>

\* the loop ends without a Just
FindMapNothing ==
    /\ pc = "findMap"
    /\ lp >= Len(a)
    /\ result' = Nothing
    /\ pc' = "returned"
    /\ lp' = 0
    /\ UNCHANGED <<a, orig, op, args, calls>>

\* the caller takes the value returned and is free to call again
TakeResult ==
    /\ pc = "returned"
    /\ pc' = "idle"
    /\ op' = "none"
    /\ args' = <<>>
    /\ result' = <<>>
    /\ calls' = <<>>
    /\ UNCHANGED <<a, orig, lp>>

Next ==
    \/ TakeResult
    \/ Length
    \/ FindMapCall
    \/ FindMapStep
    \/ FindMapNothing
    \/ Append_
    \/ Prepend
    \/ Slice
    \/ At
    \/ Range
    \/ Concat
    \/ Reduce
    \/ ZipWith
    \/ Map
    \/ Join
    \/ Filter
    \/ Sort

Spec == Init /\ [][Next]_vars

----------------------------------------------------------------------------
(* Properties. *)

Returned(name) == op = name /\ pc = "returned"

\* the smallest index at which the mapping s gives a Just on arr, or -1
FirstJust(s, arr) ==
    LET js == {k \in 0..(Len(arr) - 1) : isJust(f(s, arr[k + 1]))}
    IN  IF js = {} THEN 0 - 1 ELSE CHOOSE k \in js : \A j \in js : k <= j

\* C1: at(s)(i) is Just(s[i]) when 0 <= i < length(s) and Nothing otherwise,
\* every negative index included.
C1_AtInRangeOrNothing ==
    Returned("at") =>
        LET i == args.index
        IN  /\ (0 <= i /\ i < Len(a)) => result = Just(a[i + 1])
            /\ (i < 0 \/ i >= Len(a)) => result = Nothing

\* a negative index that would name an element counted from the end
C1_Witness ==
    /\ Returned("at")
    /\ args.index < 0
    /\ 0 - args.index <= Len(a)
    /\ result = Nothing

\* C2: slice(s)(start)(end) is the elements of s at the indices k with
\* start <= k < end, a negative start or end counted from the end; it is empty
\* when the range is out of bounds or start >= end.
C2_SliceElements ==
    Returned("slice") =>
        LET len == Len(a)
            effStart == IF args.start < 0 THEN len + args.start ELSE args.start
            effEnd == IF args.end < 0 THEN len + args.end ELSE args.end
            ks == {k \in 0..(len - 1) : effStart <= k /\ k < effEnd}
            first == IF effStart < 0 THEN 0 ELSE effStart
        IN  /\ Len(result) = Cardinality(ks)
            /\ \A i \in 1..Len(result) : result[i] = a[first + i]
            /\ (effStart >= effEnd \/ effStart >= len \/ effEnd <= 0)
                   => result = <<>>

\* both indices negative and a proper, non-empty part of the array returned
C2_Witness ==
    /\ Returned("slice")
    /\ args.start < 0
    /\ args.end < 0
    /\ result # <<>>
    /\ Len(result) < Len(a)

\* C3: range(lower)(upper) is lower, lower+1, ..., upper-1 when lower < upper,
\* lower, lower-1, ..., upper+1 when lower > upper, and empty when they are equal.
C3_RangeConsecutive ==
    Returned("range") =>
        LET lower == args.lower
            upper == args.upper
        IN  /\ lower < upper =>
                /\ Len(result) = upper - lower
                /\ \A i \in 1..Len(result) : result[i] = lower + (i - 1)
            /\ lower > upper =>
                /\ Len(result) = lower - upper
                /\ \A i \in 1..Len(result) : result[i] = lower - (i - 1)
            /\ lower = upper => result = <<>>

\* a descending range of several integers
C3_Witness ==
    /\ Returned("range")
    /\ args.lower > args.upper
    /\ Len(result) >= 2

\* C4: findMap(s)(f) returns f(s[k]) for the smallest k at which f(s[k]) is a
\* Just, and Nothing when there is no such k.
C4_FindMapFirstJust ==
    Returned("findMap") =>
        LET k == FirstJust(args.f, a)
        IN  IF k < 0
            THEN result = Nothing
            ELSE result = f(args.f, a[k + 1])

\* a Just found after the first element, with another Just after it
C4_Witness ==
    /\ Returned("findMap")
    /\ isJust(result)
    /\ FirstJust(args.f, a) >= 1
    /\ \E j \in 1..Len(a) : isJust(f(args.f, a[j])) /\ f(args.f, a[j]) # result

\* C5: during findMap, f is applied to the elements in increasing index order,
\* once each, and to no element after the first Just: k+1 calls when the first
\* Just is at index k, length(s) calls when there is none.
C5_FindMapShortCircuits ==
    /\ pc = "findMap" =>
        /\ calls = [i \in 1..lp |-> i - 1]
        /\ \A i \in 1..Len(calls) : ~isJust(f(args.f, a[calls[i] + 1]))
    /\ Returned("findMap") =>
        LET k == FirstJust(args.f, a)
            n == IF k < 0 THEN Len(a) ELSE k + 1
        IN  calls = [i \in 1..n |-> i - 1]

\* a Just found with elements left unvisited after it
C5_Witness ==
    /\ Returned("findMap")
    /\ isJust(result)
    /\ Len(calls) >= 2
    /\ Len(calls) < Len(a)

\* C6: sort(compare)(s) is a permutation of s, ordered by compare, in which
\* elements that compare equal keep their relative order in s.
C6_SortStablePermutation ==
    Returned("sort") =>
        LET c == args.compare
            Same(e, arr) == SelectSeq(arr, LAMBDA x : x = e)
            Equal(e, arr) == SelectSeq(arr, LAMBDA x : compare(c, x, e) = 0)
        IN  /\ Len(result) = Len(orig)
            /\ \A e \in Elem : Len(Same(e, result)) = Len(Same(e, orig))
            /\ \A i, j \in 1..Len(result) :
                   i < j => compare(c, result[i], result[j]) <= 0
            /\ \A e \in Elem : Equal(e, result) = Equal(e, orig)

\* distinct elements that compare equal, in an array the sort reorders
C6_Witness ==
    /\ Returned("sort")
    /\ result # orig
    /\ \E i, j \in 1..Len(orig) :
        /\ i < j
        /\ orig[i] # orig[j]
        /\ compare(args.compare, orig[i], orig[j]) = 0

\* C7: reduce(s)(fNil)(fCons) calls exactly one of the two functions, once:
\* fNil() when s is empty, otherwise fCons on s[0] and the elements of s from
\* index 1 onward.
C7_ReduceOneLevel ==
    Returned("reduce") =>
        IF a = <<>>
        THEN /\ result = fNil
             /\ calls = <<"fNil">>
        ELSE /\ result.kind = "Cons"
             /\ result.head = Head(a)
             /\ result.tail = Tail(a)
             /\ calls = <<"fCons">>

\* an array whose tail is not empty
C7_Witness ==
    /\ Returned("reduce")
    /\ Len(a) >= 2
    /\ calls = <<"fCons">>

\* C8: zipWith(f)(a1)(a2) has the length of the shorter array and
\* f(a1[i])(a2[i]) at each index i.
C8_ZipWithPairs ==
    Returned("zipWith") =>
        LET a2 == args.a2
        IN  /\ Len(result) <= Len(a)
            /\ Len(result) <= Len(a2)
            /\ Len(result) = Len(a) \/ Len(result) = Len(a2)
            /\ \A i \in 1..Len(result) : result[i] = Apply2(args.f, a[i], a2[i])

\* arrays of different lengths, neither empty
C8_Witness ==
    /\ Returned("zipWith")
    /\ Len(a) # Len(args.a2)
    /\ result # <<>>

\* C9: after any sequence of calls the array has the length and the elements,
\* in the order, it had before them.
C9_InputNotMutated == a = orig

\* a sort that returned another order than the argument's
C9_Witness ==
    /\ Returned("sort")
    /\ result # orig
    /\ a = orig

\* C10: append(s)(x) has length length(s)+1, keeps the elements of s at their
\* indices, and has Just(x) at index length(s).
C10_AppendAtEnd ==
    Returned("append") =>
        /\ Len(result) = Len(a) + 1
        /\ \A i \in 1..Len(a) : result[i] = a[i]
        /\ at(result, Len(a)) = Just(args.item)

\* an item appended to a non-empty array that does not start with it
C10_Witness ==
    /\ Returned("append")
    /\ Len(a) >= 1
    /\ a[1] # args.item

====
